---- MODULE Spec2Model ----
(***************************************************************************)
(* Model of the in-memory job tracker (class QueueManager) of the bulk     *)
(* image enhancement server: the job map, the active set, the pending      *)
(* queue, and the notifications its operations emit.                       *)
(*                                                                         *)
(* JavaScript arrays are 0-based; job.images is kept as a TLA+ sequence,   *)
(* so the image addressed by imageIndex i is images[i + 1].                *)
(***************************************************************************)
EXTENDS Integers, Sequences, FiniteSets, TLC

(* ------------------------------ bounds -------------------------------- *)

\* number of tracker calls in one behaviour (also the range of the clock)
MaxOps == 3
\* largest number of image paths handed to createJob
MaxImages == 2

(* ------------------------------ values -------------------------------- *)

JobIds == {"A", "B"}

\* JavaScript null / undefined / empty string, and the truthiness test used
\* by `if (data.outputPath)`
Null == "<null>"
Undefined == "<undefined>"
EmptyString == ""
Truthy(v) == v \notin {Null, Undefined, EmptyString}

\* completedAt: null until the job completes
NullTime == 0

\* new Date(): the clock advances with every call
FirstTime == 1

ImageStatuses == {"pending", "processing", "completed", "failed"}
\* the statuses a caller passes to updateImageStatus
NewStatuses == {"processing", "completed", "failed"}

\* the `data` argument of updateImageStatus; an omitted argument is {}
NoData == [outputPath |-> Undefined, error |-> Undefined, analysis |-> Undefined]
SuccessData == [outputPath |-> "out1", error |-> Undefined, analysis |-> "text"]
FailureData == [outputPath |-> Undefined, error |-> "err1", analysis |-> Undefined]
DataValues == { NoData, SuccessData, FailureData }

\* image indexes a caller may pass; MaxImages is past the end of every job
ImageIndexes == 0 .. MaxImages

\* the uploads a caller may hand to createJob: a run of files in either order
Files == << "p1", "p2", "p3", "p4" >>
Reversed(s) == [i \in 1..Len(s) |-> s[Len(s) + 1 - i]]
PathLists ==
    { SubSeq(Files, 1, n) : n \in 0..MaxImages }
        \cup { Reversed(SubSeq(Files, 1, n)) : n \in 0..MaxImages }

(* ------------------------------- state -------------------------------- *)

VARIABLES
    jobs,            \* this.jobs: jobId -> job record (a function on the registered ids)
    activeJobs,      \* this.activeJobs
    queue,           \* this.queue
    emitted,         \* the notifications emitted by the last call, in order
    jobCompleteCount,\* how many jobComplete notifications each id has received
    now,             \* the clock read by new Date()
    usedIds,         \* the ids generateJobId has handed out
    lastCall,        \* the last call made on the tracker
    maxConcurrent,   \* this.maxConcurrent
    pc,              \* where the processJob flow of each id stands
    imageIdx,        \* the loop variable i of each processJob flow
    uploads,         \* the image paths of the job object each flow holds
    running,         \* the flow that is executing synchronous code, if any
    disk,            \* the files in the upload and output directories
    timers,          \* the cleanup timers set by the jobComplete listener, per id
    sweep,           \* the loop position of the timer callback that unlinks uploads
    purge,           \* the loop position of the cleanup route that unlinks outputs
    response,        \* the HTTP response sent in the last step, if any
    retry,           \* the arguments and locals of one processImageWithRetry call
    models,          \* imageRouterModelsCache, the clock and the requests of its route
    client           \* the browser client: its globals, timer and requests in flight

trackerVars == <<jobs, activeJobs, queue, emitted, jobCompleteCount, now, usedIds, lastCall,
                 maxConcurrent>>
serverVars == <<pc, imageIdx, uploads, running, disk, timers, sweep, purge, response>>
retryVars == <<retry>>
modelsVars == <<models>>
clientVars == <<client>>
vars == <<jobs, activeJobs, queue, emitted, jobCompleteCount, now, usedIds, lastCall,
          maxConcurrent, pc, imageIdx, uploads, running, disk, timers, sweep, purge,
          response, retry, models, client>>

\* constructor(maxConcurrent = 3)
DefaultMaxConcurrent == 3

Registered == DOMAIN jobs

(* ----------------------------- createJob ------------------------------ *)

NewImage(path) ==
    [path |-> path, status |-> "pending", outputPath |-> Null,
     error |-> Null, analysis |-> Undefined]

InitialProgress(imagePaths) ==
    [total |-> Len(imagePaths), completed |-> 0, failed |-> 0,
     pending |-> Len(imagePaths)]

NewJob(jobId, imagePaths, t) ==
    [jobId |-> jobId,
     status |-> "pending",
     images |-> [i \in 1..Len(imagePaths) |-> NewImage(imagePaths[i])],
     createdAt |-> t,
     completedAt |-> NullTime,
     progress |-> InitialProgress(imagePaths)]

\* this.jobs.set(jobId, job)
MapSet(m, k, v) == [x \in (DOMAIN m) \cup {k} |-> IF x = k THEN v ELSE m[x]]
\* slip: this.jobs.clear()
MapDelete_Clear(m, k) == [x \in {} |-> Null]

\* this.jobs.delete(jobId)
MapDelete(m, k) == [x \in (DOMAIN m) \ {k} |-> m[x]]

\* slip: this.queue.unshift(jobId)
QueuePush_Unshift(q, jobId) == << jobId >> \o q

\* this.queue.push(jobId)
QueuePush(q, jobId) == Append(q, jobId)

createJob(jobId, imagePaths) ==
    /\ jobId \notin usedIds
    /\ jobs' = MapSet(jobs, jobId, NewJob(jobId, imagePaths, now))
    /\ queue' = QueuePush(queue, jobId)
    /\ usedIds' = usedIds \cup {jobId}
    /\ emitted' = <<>>
    /\ now' = now + 1
    /\ lastCall' = [op |-> "createJob", jobId |-> jobId, imagePaths |-> imagePaths]
    /\ UNCHANGED <<activeJobs, jobCompleteCount, maxConcurrent>>

\* getJob(jobId): the job, or null
getJob(jobId) == IF jobId \in Registered THEN jobs[jobId] ELSE Null

(* ------------------------- updateImageStatus -------------------------- *)

\* const image = job.images[imageIndex]; if (!image) return;
HasImage(job, imageIndex) == imageIndex + 1 \in DOMAIN job.images

\* slip: the assignment image.status = status left out
UpdatedImage_StatusKept(image, status, data) ==
    [path |-> image.path,
     status |-> image.status,
     outputPath |-> IF Truthy(data.outputPath) THEN data.outputPath ELSE image.outputPath,
     error |-> IF Truthy(data.error) THEN data.error ELSE image.error,
     analysis |-> IF Truthy(data.analysis) THEN data.analysis ELSE image.analysis]

\* slip: the output path written over the image's path
UpdatedImage_PathReplaced(image, status, data) ==
    [path |-> IF Truthy(data.outputPath) THEN data.outputPath ELSE image.path,
     status |-> status,
     outputPath |-> IF Truthy(data.outputPath) THEN data.outputPath ELSE image.outputPath,
     error |-> IF Truthy(data.error) THEN data.error ELSE image.error,
     analysis |-> IF Truthy(data.analysis) THEN data.analysis ELSE image.analysis]

\* slip: the payload assigned without the `if (data.x)` tests
UpdatedImage_Unconditional(image, status, data) ==
    [path |-> image.path,
     status |-> status,
     outputPath |-> data.outputPath,
     error |-> data.error,
     analysis |-> data.analysis]

\* image.status = status, then the three `if (data.x) image.x = data.x`
UpdatedImage(image, status, data) ==
    [path |-> image.path,
     status |-> status,
     outputPath |-> IF Truthy(data.outputPath) THEN data.outputPath ELSE image.outputPath,
     error |-> IF Truthy(data.error) THEN data.error ELSE image.error,
     analysis |-> IF Truthy(data.analysis) THEN data.analysis ELSE image.analysis]

\* slip: job.progress.pending-- without looking at oldStatus
PendingAfter_Unguarded(oldStatus, pending) == pending - 1

\* if (oldStatus === 'pending') job.progress.pending--
PendingAfter(oldStatus, pending) ==
    IF oldStatus = "pending" THEN pending - 1 ELSE pending

\* if (status === 'completed') job.progress.completed++
CompletedAfter(status, completed) ==
    IF status = "completed" THEN completed + 1 ELSE completed

\* else if (status === 'failed') job.progress.failed++
FailedAfter(status, failed) ==
    IF status = "failed" THEN failed + 1 ELSE failed

UpdatedProgress(progress, oldStatus, status) ==
    [total |-> progress.total,
     completed |-> CompletedAfter(status, progress.completed),
     failed |-> FailedAfter(status, progress.failed),
     pending |-> PendingAfter(oldStatus, progress.pending)]

\* job.images.every(img => img.status === 'completed' || img.status === 'failed')
allDone(images) ==
    \A i \in DOMAIN images : images[i].status \in {"completed", "failed"}

\* slip: job.images.some(...) in place of every(...)
CompletesJob_Some(job, images) ==
    \E i \in DOMAIN images : images[i].status \in {"completed", "failed"}

\* the `if (allDone)` test that guards the completion block; job.status is not consulted
CompletesJob(job, images) == allDone(images)

\* the job after lines 67-82: image and counters updated, completion not yet examined
JobWithImage(job, imageIndex, status, data) ==
    [job EXCEPT
        !.images[imageIndex + 1] = UpdatedImage(@, status, data),
        !.progress = UpdatedProgress(@, job.images[imageIndex + 1].status, status)]

\* the completion block: job.status = 'completed'; job.completedAt = new Date()
CompletedJob(job, t) == [job EXCEPT !.status = "completed", !.completedAt = t]

JobCompleteEvent(jobId) == [type |-> "jobComplete", jobId |-> jobId]
JobUpdateEvent(jobId, job) == [type |-> "jobUpdate", jobId |-> jobId, job |-> job]
JobStartEvent(jobId) == [type |-> "jobStart", jobId |-> jobId]

\* slip: jobUpdate emitted before the early returns
UpdateEmits_BeforeReturns(accepted, jobId, job, done) ==
    IF accepted /\ done
    THEN << JobCompleteEvent(jobId), JobUpdateEvent(jobId, job) >>
    ELSE << JobUpdateEvent(jobId, job) >>

\* slip: jobUpdate emitted before the completion block
UpdateEmits_UpdateFirst(accepted, jobId, job, done) ==
    IF ~accepted THEN << >>
    ELSE IF done THEN << JobUpdateEvent(jobId, job), JobCompleteEvent(jobId) >>
    ELSE << JobUpdateEvent(jobId, job) >>

\* the emit calls of updateImageStatus, in the order they are made: none when
\* the call returned early
UpdateEmits(accepted, jobId, job, done) ==
    IF ~accepted THEN << >>
    ELSE IF done THEN << JobCompleteEvent(jobId), JobUpdateEvent(jobId, job) >>
    ELSE << JobUpdateEvent(jobId, job) >>

\* slip: the completion block without this.activeJobs.delete(jobId)
ActiveAfterUpdate_Kept(active, jobId, done) == active

\* slip: this.activeJobs.clear() in the completion block
ActiveAfterUpdate_Clear(active, jobId, done) ==
    IF done THEN {} ELSE active

\* this.activeJobs.delete(jobId), inside the completion block
ActiveAfterUpdate(active, jobId, done) ==
    IF done THEN active \ {jobId} ELSE active

\* the two early returns: unknown job, or no image at the index
UpdateAccepted(jobId, imageIndex) ==
    /\ jobId \in Registered
    /\ HasImage(jobs[jobId], imageIndex)

updateImageStatus(jobId, imageIndex, status, data) ==
    /\ now' = now + 1
    /\ lastCall' = [op |-> "updateImageStatus", jobId |-> jobId,
                    imageIndex |-> imageIndex, status |-> status, data |-> data]
    /\ UNCHANGED <<queue, usedIds, maxConcurrent>>
    /\ IF UpdateAccepted(jobId, imageIndex)
       THEN LET updated == JobWithImage(jobs[jobId], imageIndex, status, data)
                done == CompletesJob(jobs[jobId], updated.images)
                final == IF done THEN CompletedJob(updated, now) ELSE updated
            IN  /\ jobs' = [jobs EXCEPT ![jobId] = final]
                /\ activeJobs' = ActiveAfterUpdate(activeJobs, jobId, done)
                /\ emitted' = UpdateEmits(TRUE, jobId, final, done)
                /\ jobCompleteCount' =
                       IF done THEN [jobCompleteCount EXCEPT ![jobId] = @ + 1]
                       ELSE jobCompleteCount
       ELSE /\ emitted' = UpdateEmits(FALSE, jobId, getJob(jobId), FALSE)
            /\ UNCHANGED <<jobs, activeJobs, jobCompleteCount>>

(* ------------------------------ startJob ------------------------------ *)

\* this.queue.indexOf(jobId): position of the first occurrence (1-based), 0 for -1
IndexOf(q, jobId) ==
    IF \E i \in DOMAIN q : q[i] = jobId
    THEN CHOOSE i \in DOMAIN q : q[i] = jobId /\ \A k \in 1..(i - 1) : q[k] # jobId
    ELSE 0

\* slip: this.queue.shift() whatever the position of jobId
RemoveFromQueue_Shift(q, jobId) ==
    IF IndexOf(q, jobId) > 0 THEN Tail(q) ELSE q

\* if (queueIndex > -1) this.queue.splice(queueIndex, 1)
RemoveFromQueue(q, jobId) ==
    LET queueIndex == IndexOf(q, jobId)
    IN  IF queueIndex > 0
        THEN SubSeq(q, 1, queueIndex - 1) \o SubSeq(q, queueIndex + 1, Len(q))
        ELSE q

\* job.status = 'processing'
StartedJob(job) == [job EXCEPT !.status = "processing"]

\* slip: this.activeJobs.add(jobId) placed before the lookup of the job
startJob_AddsBeforeLookup(jobId) ==
    /\ now' = now + 1
    /\ lastCall' = [op |-> "startJob", jobId |-> jobId]
    /\ UNCHANGED <<usedIds, jobCompleteCount, maxConcurrent>>
    /\ activeJobs' = activeJobs \cup {jobId}
    /\ IF jobId \in Registered
       THEN /\ jobs' = [jobs EXCEPT ![jobId] = StartedJob(@)]
            /\ queue' = RemoveFromQueue(queue, jobId)
            /\ emitted' = << JobStartEvent(jobId) >>
       ELSE /\ emitted' = <<>>
            /\ UNCHANGED <<jobs, queue>>

\* slip: startJob returning early when the active set is full
startJob_Gated(jobId) ==
    /\ now' = now + 1
    /\ lastCall' = [op |-> "startJob", jobId |-> jobId]
    /\ UNCHANGED <<usedIds, jobCompleteCount, maxConcurrent>>
    /\ IF jobId \in Registered /\ Cardinality(activeJobs) < maxConcurrent
       THEN /\ jobs' = [jobs EXCEPT ![jobId] = StartedJob(@)]
            /\ activeJobs' = activeJobs \cup {jobId}
            /\ queue' = RemoveFromQueue(queue, jobId)
            /\ emitted' = << JobStartEvent(jobId) >>
       ELSE /\ emitted' = <<>>
            /\ UNCHANGED <<jobs, activeJobs, queue>>

startJob(jobId) ==
    /\ now' = now + 1
    /\ lastCall' = [op |-> "startJob", jobId |-> jobId]
    /\ UNCHANGED <<usedIds, jobCompleteCount, maxConcurrent>>
    /\ IF jobId \in Registered
       THEN /\ jobs' = [jobs EXCEPT ![jobId] = StartedJob(@)]
            /\ activeJobs' = activeJobs \cup {jobId}
            /\ queue' = RemoveFromQueue(queue, jobId)
            /\ emitted' = << JobStartEvent(jobId) >>
       ELSE /\ emitted' = <<>>
            /\ UNCHANGED <<jobs, activeJobs, queue>>

(* ------------------------------ queries ------------------------------- *)

\* slip: <= in place of <
canStartNewJob_AtMost == Cardinality(activeJobs) <= maxConcurrent /\ Len(queue) > 0

canStartNewJob == Cardinality(activeJobs) < maxConcurrent /\ Len(queue) > 0

\* slip: the tail of the queue in place of its head
getNextJob_Last == IF Len(queue) = 0 THEN Null ELSE queue[Len(queue)]

getNextJob == IF Len(queue) = 0 THEN Null ELSE queue[1]

getStats ==
    [totalJobs |-> Cardinality(Registered),
     activeJobs |-> Cardinality(activeJobs),
     queuedJobs |-> Len(queue),
     maxConcurrent |-> maxConcurrent]

\* a query called by the scheduler or the stats route: the value it returns is
\* kept in lastCall, nothing is emitted
Query(name, result) ==
    /\ lastCall' = [op |-> name, result |-> result]
    /\ now' = now + 1
    /\ emitted' = <<>>
    /\ UNCHANGED <<jobs, activeJobs, queue, jobCompleteCount, usedIds, maxConcurrent>>

(* ------------------------------ removeJob ----------------------------- *)

\* slip: the removal from the queue left out
removeJob_QueueKept(jobId) ==
    /\ now' = now + 1
    /\ lastCall' = [op |-> "removeJob", jobId |-> jobId]
    /\ jobs' = MapDelete(jobs, jobId)
    /\ activeJobs' = activeJobs \ {jobId}
    /\ emitted' = <<>>
    /\ UNCHANGED <<queue, usedIds, jobCompleteCount, maxConcurrent>>

\* slip: this.activeJobs.delete(jobId) left out
removeJob_ActiveKept(jobId) ==
    /\ now' = now + 1
    /\ lastCall' = [op |-> "removeJob", jobId |-> jobId]
    /\ jobs' = MapDelete(jobs, jobId)
    /\ queue' = RemoveFromQueue(queue, jobId)
    /\ emitted' = <<>>
    /\ UNCHANGED <<activeJobs, usedIds, jobCompleteCount, maxConcurrent>>

removeJob(jobId) ==
    /\ now' = now + 1
    /\ lastCall' = [op |-> "removeJob", jobId |-> jobId]
    /\ jobs' = MapDelete(jobs, jobId)
    /\ activeJobs' = activeJobs \ {jobId}
    /\ queue' = RemoveFromQueue(queue, jobId)
    /\ emitted' = <<>>
    /\ UNCHANGED <<usedIds, jobCompleteCount, maxConcurrent>>

(* ------------------------- the server's flows ------------------------- *)

\* no flow is between two awaits
NoFlow == "<none>"

\* the step sent no HTTP response
NoResponse == [route |-> "<none>"]

\* multer limits: files: 20, and upload.array('images', 20)
UploadFileLimit == 20

\* multer's filename callback: a unique prefix before the original name; the
\* prefix of a request is modelled by the job id the request is given
StoredPath(jobId, name) == jobId \o "-" \o name
StoredPaths(jobId, names) == [k \in DOMAIN names |-> StoredPath(jobId, names[k])]

\* processImage: outputPath = path.join(outputDir, `enhanced_${filename}`)
OutputPath(path) == "enhanced_" \o path

Range(seq) == { seq[k] : k \in DOMAIN seq }

\* result.outputPath / result.analysis of a successful provider call, and the
\* error of a failed one or of a thrown exception
ProviderSuccess == SuccessData
ProviderFailure == FailureData
ProviderOutcomes == {"success", "failure", "throws"}
ProviderSuccessFor(path) == [ProviderSuccess EXCEPT !.outputPath = OutputPath(path)]

\* how many jobComplete notifications for the id are among those emitted
CompletionsIn(es, jobId) ==
    Cardinality({ k \in DOMAIN es : es[k].type = "jobComplete" /\ es[k].jobId = jobId })

\* queueManager.on('jobComplete'): every notification of the call just made
\* sets one cleanup timer
ListenersRun ==
    timers' = [jobId \in DOMAIN timers |-> timers[jobId] + CompletionsIn(emitted', jobId)]

\* slip: the test for an empty upload left out
UploadRejection_NoEmptyTest(imagePaths) ==
    IF Len(imagePaths) > UploadFileLimit THEN 500 ELSE 0

\* the status of the error response to an upload that creates no job, 0 for
\* none: multer fails a request with more than 20 files before the handler
\* runs, and the handler answers 400 to a request without files
UploadRejection(imagePaths) ==
    IF Len(imagePaths) > UploadFileLimit THEN 500
    ELSE IF Len(imagePaths) = 0 THEN 400
    ELSE 0

\* POST /api/upload with valid keys: the files are stored, then createJob,
\* then processJob is entered synchronously
Upload(jobId, imagePaths) ==
    /\ running = NoFlow
    /\ IF UploadRejection(imagePaths) # 0
       THEN /\ response' = [route |-> "upload", code |-> UploadRejection(imagePaths),
                            files |-> Len(imagePaths)]
            /\ UNCHANGED <<trackerVars, pc, uploads, running, disk>>
       ELSE /\ createJob(jobId, StoredPaths(jobId, imagePaths))
            /\ pc' = [pc EXCEPT ![jobId] = "getJob"]
            /\ uploads' = [uploads EXCEPT ![jobId] = StoredPaths(jobId, imagePaths)]
            /\ running' = jobId
            /\ disk' = disk \cup Range(StoredPaths(jobId, imagePaths))
            /\ response' = [route |-> "upload", code |-> 200, files |-> Len(imagePaths),
                            jobId |-> jobId, imageCount |-> Len(imagePaths)]
    /\ UNCHANGED <<imageIdx, timers, sweep, purge>>

\* the text fields of an upload request; a key is the sequence of its
\* characters, and a field that was not sent reads as the empty key
NoKey == << >>
GeminiKeyPrefix == << "A", "I", "z", "a" >>
GeminiKeys == { NoKey, << "A", "I", "z", "a", "1" >>, << "A", "I", "z" >>,
                << "s", "k", "A", "I", "z", "a" >> }
ImageRouterKeys == { NoKey, << "i", "r", "1" >> }
Providers == { Undefined, "gemini", "imagerouter", "other" }
UploadForms ==
    [ provider : Providers, apiKey : GeminiKeys, imageRouterApiKey : ImageRouterKeys ]

\* String.prototype.startsWith
StartsWith(s, prefix) ==
    /\ Len(s) >= Len(prefix)
    /\ SubSeq(s, 1, Len(prefix)) = prefix

\* const provider = req.body.provider || 'gemini'
ProviderOf(form) == IF Truthy(form.provider) THEN form.provider ELSE "gemini"

NoError == ""

\* slip: the format test of the Gemini key left out
KeyRejection_NoFormatTest(form) ==
    IF ProviderOf(form) = "imagerouter"
    THEN IF form.imageRouterApiKey = NoKey THEN "ImageRouter API key is required"
         ELSE NoError
    ELSE IF form.apiKey = NoKey THEN "Gemini API key is required"
         ELSE NoError

\* the validation of the API key by provider: the error of the 400 response,
\* NoError when the request goes on
KeyRejection(form) ==
    IF ProviderOf(form) = "imagerouter"
    THEN IF form.imageRouterApiKey = NoKey THEN "ImageRouter API key is required"
         ELSE NoError
    ELSE IF form.apiKey = NoKey THEN "Gemini API key is required"
         ELSE IF ~StartsWith(form.apiKey, GeminiKeyPrefix)
              THEN "Invalid Gemini API key format"
              ELSE NoError

\* POST /api/upload with any form fields: multer has stored the files when the
\* handler runs; a request with files whose key is refused is answered 400
\* before generateJobId and createJob, every other request goes on as above
UploadForm(jobId, imagePaths, form) ==
    IF UploadRejection(imagePaths) = 0 /\ KeyRejection(form) # NoError
    THEN /\ running = NoFlow
         /\ response' = [route |-> "upload", code |-> 400, files |-> Len(imagePaths),
                          error |-> KeyRejection(form)]
         /\ disk' = disk \cup Range(StoredPaths(jobId, imagePaths))
         /\ UNCHANGED <<trackerVars, pc, imageIdx, uploads, running, timers, sweep, purge>>
    ELSE Upload(jobId, imagePaths)

\* processJob: const job = getJob(jobId); if (!job) return; startJob(jobId)
ProcessJobStart(jobId) ==
    /\ running = jobId
    /\ pc[jobId] = "getJob"
    /\ IF jobId \notin Registered
       THEN /\ pc' = [pc EXCEPT ![jobId] = "done"]
            /\ running' = NoFlow
            /\ UNCHANGED trackerVars
       ELSE /\ startJob(jobId)
            /\ pc' = [pc EXCEPT ![jobId] = "construct"]
            /\ UNCHANGED running
    /\ response' = NoResponse
    /\ UNCHANGED <<imageIdx, uploads, disk, timers, sweep, purge>>

\* processJob: new ImageRouterProcessor(...) / new GeminiProcessor(...), which
\* either returns or throws into the outer catch
CreateProcessor(jobId, throws) ==
    /\ running = jobId
    /\ pc[jobId] = "construct"
    /\ pc' = [pc EXCEPT ![jobId] = IF throws THEN "fatal" ELSE "loop"]
    /\ imageIdx' = [imageIdx EXCEPT ![jobId] = 0]
    /\ response' = NoResponse
    /\ UNCHANGED <<trackerVars, uploads, running, disk, timers, sweep, purge>>

\* slip: the provider called without the image being marked processing
LoopStep_Unmarked(jobId) ==
    /\ running = jobId
    /\ pc[jobId] = "loop"
    /\ pc' = [pc EXCEPT ![jobId] =
                 IF imageIdx[jobId] < Len(uploads[jobId]) THEN "await" ELSE "done"]
    /\ running' = NoFlow
    /\ response' = NoResponse
    /\ UNCHANGED <<trackerVars, timers, imageIdx, uploads, disk, sweep, purge>>

\* processJob: the loop test, then updateImageStatus(jobId, i, 'processing')
\* and the await of processImageWithRetry
LoopStep(jobId) ==
    /\ running = jobId
    /\ pc[jobId] = "loop"
    /\ IF imageIdx[jobId] < Len(uploads[jobId])
       THEN /\ updateImageStatus(jobId, imageIdx[jobId], "processing", NoData)
            /\ pc' = [pc EXCEPT ![jobId] = "await"]
            /\ ListenersRun
       ELSE /\ pc' = [pc EXCEPT ![jobId] = "done"]
            /\ UNCHANGED <<trackerVars, timers>>
    /\ running' = NoFlow
    /\ response' = NoResponse
    /\ UNCHANGED <<imageIdx, uploads, disk, sweep, purge>>

\* processJob: the awaited call settles; the result is reported and i++. A
\* successful call has read the upload and written the output file
ProviderReturns(jobId, outcome) ==
    /\ running = NoFlow
    /\ pc[jobId] = "await"
    /\ LET path == uploads[jobId][imageIdx[jobId] + 1]
       IN  IF outcome = "success"
           THEN /\ path \in disk
                /\ updateImageStatus(jobId, imageIdx[jobId], "completed",
                                     ProviderSuccessFor(path))
                /\ disk' = disk \cup {OutputPath(path)}
           ELSE /\ updateImageStatus(jobId, imageIdx[jobId], "failed", ProviderFailure)
                /\ UNCHANGED disk
    /\ ListenersRun
    /\ imageIdx' = [imageIdx EXCEPT ![jobId] = @ + 1]
    /\ pc' = [pc EXCEPT ![jobId] = "loop"]
    /\ running' = jobId
    /\ response' = NoResponse
    /\ UNCHANGED <<uploads, sweep, purge>>

\* slip: the outer catch marking the first image only
FatalStep_FirstOnly(jobId) ==
    /\ running = jobId
    /\ pc[jobId] = "fatal"
    /\ IF imageIdx[jobId] < 1
       THEN /\ updateImageStatus(jobId, imageIdx[jobId], "failed", ProviderFailure)
            /\ ListenersRun
            /\ imageIdx' = [imageIdx EXCEPT ![jobId] = @ + 1]
            /\ UNCHANGED <<pc, running>>
       ELSE /\ pc' = [pc EXCEPT ![jobId] = "done"]
            /\ running' = NoFlow
            /\ UNCHANGED <<trackerVars, imageIdx, timers>>
    /\ response' = NoResponse
    /\ UNCHANGED <<uploads, disk, sweep, purge>>

\* processJob, outer catch: mark all images as failed
FatalStep(jobId) ==
    /\ running = jobId
    /\ pc[jobId] = "fatal"
    /\ IF imageIdx[jobId] < Len(uploads[jobId])
       THEN /\ updateImageStatus(jobId, imageIdx[jobId], "failed", ProviderFailure)
            /\ ListenersRun
            /\ imageIdx' = [imageIdx EXCEPT ![jobId] = @ + 1]
            /\ UNCHANGED <<pc, running>>
       ELSE /\ pc' = [pc EXCEPT ![jobId] = "done"]
            /\ running' = NoFlow
            /\ UNCHANGED <<trackerVars, imageIdx, timers>>
    /\ response' = NoResponse
    /\ UNCHANGED <<uploads, disk, sweep, purge>>

\* the first image at or after position k that has an outputPath, 0 for none:
\* for (const image of job.images) if (image.outputPath) await fs.unlink(...)
NextOutput(job, k) ==
    IF \E m \in k .. Len(job.images) : Truthy(job.images[m].outputPath)
    THEN CHOOSE m \in k .. Len(job.images) :
            /\ Truthy(job.images[m].outputPath)
            /\ \A n \in k .. (m - 1) : ~Truthy(job.images[n].outputPath)
    ELSE 0

\* DELETE /api/cleanup/:jobId: 404 unless getJob finds the job; else the loop
\* over the images runs up to its first await, or, with no output to delete,
\* to removeJob(jobId) and the response. One request per job at a time.
Cleanup(jobId) ==
    /\ running = NoFlow
    /\ purge[jobId] = 0
    /\ IF jobId \notin Registered
       THEN /\ response' = [route |-> "cleanup", code |-> 404, jobId |-> jobId]
            /\ UNCHANGED <<trackerVars, purge>>
       ELSE IF NextOutput(jobs[jobId], 1) # 0
       THEN /\ purge' = [purge EXCEPT ![jobId] = NextOutput(jobs[jobId], 1)]
            /\ response' = NoResponse
            /\ UNCHANGED trackerVars
       ELSE /\ removeJob(jobId)
            /\ response' = [route |-> "cleanup", code |-> 200, jobId |-> jobId]
            /\ UNCHANGED purge
    /\ UNCHANGED <<pc, imageIdx, uploads, running, disk, timers, sweep>>

\* the cleanup route after an awaited unlink: the output file is gone; the
\* loop goes on to the next output, or ends with removeJob(jobId)
CleanupUnlinked(jobId) ==
    /\ running = NoFlow
    /\ purge[jobId] # 0
    /\ jobId \in Registered
    /\ disk' = disk \ {jobs[jobId].images[purge[jobId]].outputPath}
    /\ IF NextOutput(jobs[jobId], purge[jobId] + 1) # 0
       THEN /\ purge' = [purge EXCEPT ![jobId] = NextOutput(jobs[jobId], purge[jobId] + 1)]
            /\ response' = NoResponse
            /\ UNCHANGED trackerVars
       ELSE /\ removeJob(jobId)
            /\ purge' = [purge EXCEPT ![jobId] = 0]
            /\ response' = [route |-> "cleanup", code |-> 200, jobId |-> jobId]
    /\ UNCHANGED <<pc, imageIdx, uploads, running, timers, sweep>>

\* slip: the `if (job)` test of the timer callback left out
SweepFrom_Unchecked(jobId) ==
    IF Len(uploads[jobId]) > 0 THEN 1 ELSE 0

\* const job = getJob(jobId); if (job) for (const image of job.images):
\* the position at which the loop starts, 0 if it does not
SweepFrom(jobId) ==
    IF jobId \in Registered /\ Len(jobs[jobId].images) > 0 THEN 1 ELSE 0

\* the jobComplete listener's timer fires: const job = getJob(jobId); if the
\* job is there, the loop over its images runs up to its first await
TimerFires(jobId) ==
    /\ running = NoFlow
    /\ timers[jobId] > 0
    /\ sweep[jobId] = 0
    /\ timers' = [timers EXCEPT ![jobId] = @ - 1]
    /\ sweep' = [sweep EXCEPT ![jobId] = SweepFrom(jobId)]
    /\ response' = NoResponse
    /\ UNCHANGED <<trackerVars, pc, imageIdx, uploads, running, disk, purge>>

\* the timer callback after an awaited fs.unlink(image.path): the upload is
\* gone (an unlink that fails is caught); on to the next image
Unlinked(jobId) ==
    /\ running = NoFlow
    /\ sweep[jobId] # 0
    /\ disk' = disk \ {uploads[jobId][sweep[jobId]]}
    /\ sweep' = [sweep EXCEPT ![jobId] =
                    IF sweep[jobId] < Len(uploads[jobId]) THEN sweep[jobId] + 1 ELSE 0]
    /\ response' = NoResponse
    /\ UNCHANGED <<trackerVars, pc, imageIdx, uploads, running, timers, purge>>

\* createJobZip: job.images.filter(img => img.status === 'completed' &&
\* img.outputPath).map(img => img.outputPath)
ProcessedImages(job) ==
    LET chosen == SelectSeq(job.images,
                            LAMBDA img : img.status = "completed" /\ Truthy(img.outputPath))
    IN  [k \in DOMAIN chosen |-> chosen[k].outputPath]

\* createZip: the paths that exist are added to the archive, in order
ZipEntries(imagePaths) == SelectSeq(imagePaths, LAMBDA path : path \in disk)

\* GET /api/download/:jobId, up to the point where the archive's entries are
\* fixed: 404, 400, the error thrown by createJobZip (500), or the archive
Download(jobId) ==
    /\ running = NoFlow
    /\ response' =
          IF jobId \notin Registered
          THEN [route |-> "download", code |-> 404, jobId |-> jobId]
          ELSE IF jobs[jobId].status # "completed"
          THEN [route |-> "download", code |-> 400, jobId |-> jobId]
          ELSE IF Len(ProcessedImages(jobs[jobId])) = 0
          THEN [route |-> "download", code |-> 500, jobId |-> jobId]
          ELSE [route |-> "download", code |-> 200, jobId |-> jobId,
                zip |-> ZipEntries(ProcessedImages(jobs[jobId]))]
    /\ UNCHANGED <<trackerVars, pc, imageIdx, uploads, running, disk, timers, sweep, purge>>

(* ----------------------- processImageWithRetry ---------------------- *)

\* largest maxRetries argument a call is made with
MaxRetries == 2

\* processImageWithRetry(imagePath, maxRetries = 2)
DefaultMaxRetries == 2
RetryLimits == (0 .. MaxRetries) \cup {DefaultMaxRetries}

\* error: lastError || 'Failed after multiple retries'
DefaultRetryError == "Failed after multiple retries"

\* how one awaited processImage call settles: it returns a result with
\* success true, returns a result with success false and an error, or throws
\* an error with a message
AttemptErrors == {"err1", "err2"}
AttemptOutcomes ==
    { [kind |-> "success", error |-> Undefined] }
        \cup { [kind |-> k, error |-> e] : k \in {"failure", "throws"}, e \in AttemptErrors }

\* the result object of a successful processImage call
AttemptSuccess ==
    [success |-> TRUE, outputPath |-> "out1", analysis |-> "text", error |-> Undefined]

\* return { success: false, error: lastError || 'Failed after multiple retries' }
RetryFailure(lastError) ==
    [success |-> FALSE, outputPath |-> Undefined, analysis |-> Undefined,
     error |-> IF Truthy(lastError) THEN lastError ELSE DefaultRetryError]

\* no call of processImageWithRetry is in progress
RetryIdle ==
    [pc |-> "idle", maxRetries |-> 0, attempt |-> 0, lastError |-> Undefined,
     calls |-> 0, trace |-> <<>>, waits |-> <<>>, result |-> Null]

\* entry of processImageWithRetry: let lastError; attempt = 0
RetryStart(maxRetries) ==
    [pc |-> "loop", maxRetries |-> maxRetries, attempt |-> 0, lastError |-> Undefined,
     calls |-> 0, trace |-> <<>>, waits |-> <<>>, result |-> Null]

\* the delay of the backoff timer: Math.pow(2, attempt) * 1000 milliseconds
BackoffDelay(attempt) == (2 ^ attempt) * 1000

\* slip: one attempt too many
RetryContinues_OneMore(attempt, maxRetries) == attempt <= maxRetries + 1

\* the loop test: attempt <= maxRetries
RetryContinues(attempt, maxRetries) == attempt <= maxRetries

\* the loop test; either the next processImage call is made and awaited, or
\* the loop is left and the failure object is returned
RetryLoop ==
    /\ retry.pc = "loop"
    /\ IF RetryContinues(retry.attempt, retry.maxRetries)
       THEN retry' = [retry EXCEPT !.pc = "call", !.calls = @ + 1]
       ELSE retry' = [retry EXCEPT !.pc = "returned",
                                   !.result = RetryFailure(retry.lastError)]
    /\ UNCHANGED <<trackerVars, serverVars, modelsVars, clientVars>>

\* the awaited call settles: a success is returned at once, a failure result
\* is noted and the loop goes on, an exception is noted and, unless this was
\* the last attempt, the backoff timer is awaited
RetrySettles(outcome) ==
    /\ retry.pc = "call"
    /\ LET noted == [retry EXCEPT !.trace = Append(@, outcome)]
       IN  retry' =
             CASE outcome.kind = "success" ->
                    [noted EXCEPT !.pc = "returned", !.result = AttemptSuccess]
               [] outcome.kind = "failure" ->
                    [noted EXCEPT !.pc = "loop", !.lastError = outcome.error,
                                  !.attempt = @ + 1]
               [] outcome.kind = "throws" ->
                    IF retry.attempt < retry.maxRetries
                    THEN [noted EXCEPT !.pc = "backoff", !.lastError = outcome.error,
                                       !.waits = Append(@, BackoffDelay(retry.attempt))]
                    ELSE [noted EXCEPT !.pc = "loop", !.lastError = outcome.error,
                                       !.attempt = @ + 1]
    /\ UNCHANGED <<trackerVars, serverVars, modelsVars, clientVars>>

\* the backoff timer fires: attempt++
RetryBackoffEnds ==
    /\ retry.pc = "backoff"
    /\ retry' = [retry EXCEPT !.pc = "loop", !.attempt = @ + 1]
    /\ UNCHANGED <<trackerVars, serverVars, modelsVars, clientVars>>

(* -------------------- GET /api/imagerouter/models --------------------- *)

\* how many times the clock is advanced in one behaviour
MaxTicks == 3

\* ttl: 3600000 // 1 hour
CacheTtl == 3600000

\* the steps by which Date.now() advances between two events, in milliseconds
ClockSteps == {1, CacheTtl - 1}

\* requests to the route that may be in progress at the same time
ModelRequests == {"r1", "r2"}

\* the model ids of the answers of the upstream API
UpstreamLists == { << "a/x" >>, << "a/x", "b/y:free" >> }

\* how the awaited axios.get and the transformation of its answer end: with a
\* list of models, with a network error or timeout, or with an answer on
\* which the transformation throws
UpstreamOutcomes ==
    { [kind |-> "ok", raw |-> raw] : raw \in UpstreamLists }
        \cup { [kind |-> k, raw |-> << >>] : k \in {"error", "malformed"} }

\* const result = { models }, one entry per model id of the answer
ModelsResult(raw) == [models |-> raw]

\* the fallback models of the catch block
FallbackModels ==
    [models |-> << "black-forest-labs/FLUX-1.1-pro", "black-forest-labs/FLUX-pro" >>]

\* data: null, as a value that can be compared with a list of models
NoModels == [none |-> TRUE]

\* let imageRouterModelsCache = { data: null, timestamp: null, ttl }; in
\* Date.now() - timestamp a null timestamp counts as 0
EmptyCache == [data |-> NoModels, timestamp |-> 0]

\* the process has started: the cache is empty, no request is being served;
\* origin tells where the list of each response came from
ModelsStart ==
    [cache |-> EmptyCache, clock |-> 0, ticks |-> 0,
     pc |-> [r \in ModelRequests |-> "idle"],
     response |-> [r \in ModelRequests |-> NoResponse],
     origin |-> [r \in ModelRequests |-> "none"],
     lastFetch |-> EmptyCache]

\* slip: a list that is exactly ttl old still served
CacheFresh_AtTtl(cache, clock) ==
    /\ cache.data # NoModels
    /\ clock - cache.timestamp <= CacheTtl

\* imageRouterModelsCache.data &&
\*     Date.now() - imageRouterModelsCache.timestamp < imageRouterModelsCache.ttl
CacheFresh(cache, clock) ==
    /\ cache.data # NoModels
    /\ clock - cache.timestamp < CacheTtl

\* time passes
ModelsTick(d) ==
    /\ models.ticks < MaxTicks
    /\ models' = [models EXCEPT !.clock = @ + d, !.ticks = @ + 1]
    /\ UNCHANGED <<trackerVars, serverVars, retryVars, clientVars>>

\* the handler up to its await: the cached list is sent, or axios.get is called
ModelsRequest(r) ==
    /\ models.pc[r] = "idle"
    /\ IF CacheFresh(models.cache, models.clock)
       THEN models' = [models EXCEPT !.response[r] = models.cache.data,
                                     !.origin[r] = "cache"]
       ELSE models' = [models EXCEPT !.pc[r] = "fetching", !.response[r] = NoResponse,
                                     !.origin[r] = "none"]
    /\ UNCHANGED <<trackerVars, serverVars, retryVars, clientVars>>

\* the handler after its await: the transformed list is stored with the time
\* of storing and sent, or the catch block sends the fallback list
ModelsSettles(r, outcome) ==
    /\ models.pc[r] = "fetching"
    /\ IF outcome.kind = "ok"
       THEN models' = [models EXCEPT
                !.cache = [data |-> ModelsResult(outcome.raw), timestamp |-> models.clock],
                !.lastFetch = [data |-> ModelsResult(outcome.raw), timestamp |-> models.clock],
                !.response[r] = ModelsResult(outcome.raw),
                !.origin[r] = "upstream",
                !.pc[r] = "idle"]
       ELSE models' = [models EXCEPT !.response[r] = FallbackModels,
                                     !.origin[r] = "fallback", !.pc[r] = "idle"]
    /\ UNCHANGED <<trackerVars, serverVars, retryVars, clientVars>>

(* --------------------------- browser client --------------------------- *)

\* how many status requests the client sends in one behaviour
MaxPolls == 3

\* let currentJobId = null; let pollingInterval = null; the upload section is
\* the one shown; no request is in flight and the results were never shown
ClientStart ==
    [currentJobId |-> Null, pollingInterval |-> Null, view |-> "upload",
     started |-> {}, sent |-> 0, inflight |-> {}, shown |-> << >>]

\* the id returned by setInterval
PollingTimer == "interval"

\* fetch(`/api/status/${currentJobId}`): a request with the id in its URL
StatusRequest(n, jobId) == [n |-> n, jobId |-> jobId, answer |-> "none"]

\* checkJobStatus up to its first await: if (!currentJobId) return; fetch(...)
checkJobStatus(c) ==
    IF c.currentJobId = Null
    THEN c
    ELSE [c EXCEPT !.sent = @ + 1,
                   !.inflight = @ \cup {StatusRequest(c.sent + 1, c.currentJobId)}]

\* stopPolling: clearInterval(pollingInterval); pollingInterval = null
stopPolling(c) == [c EXCEPT !.pollingInterval = Null]

\* showResultsSection(job): the results section replaces the processing
\* section; the call is recorded with the job it shows and with currentJobId
showResultsSection(c, jobId) ==
    [c EXCEPT !.view = "results",
              !.shown = Append(@, [jobId |-> jobId, current |-> c.currentJobId])]

\* handleUpload after its awaits, for an answer with success: currentJobId =
\* data.jobId; showProcessingSection(); startPolling(), which sets the
\* interval and calls checkJobStatus at once
ClientUploadAnswered(jobId) ==
    /\ client.view = "upload"
    /\ jobId \in usedIds
    /\ jobId \notin client.started
    /\ client' = checkJobStatus([client EXCEPT !.currentJobId = jobId,
                                               !.view = "processing",
                                               !.started = @ \cup {jobId},
                                               !.pollingInterval = PollingTimer])
    /\ UNCHANGED <<trackerVars, serverVars, retryVars, modelsVars>>

\* the 2-second interval fires: checkJobStatus()
ClientTimerFires ==
    /\ client.pollingInterval # Null
    /\ client.sent < MaxPolls
    /\ client' = checkJobStatus(client)
    /\ UNCHANGED <<trackerVars, serverVars, retryVars, modelsVars>>

\* GET /api/status/:jobId: 404 for an unknown id, the job record otherwise
StatusHandled(r) ==
    /\ r \in client.inflight
    /\ r.answer = "none"
    /\ running = NoFlow
    /\ LET answer == IF r.jobId \in Registered THEN jobs[r.jobId].status ELSE "notfound"
       IN  /\ client' = [client EXCEPT
                   !.inflight = (@ \ {r}) \cup {[r EXCEPT !.answer = answer]}]
           /\ response' = [route |-> "status",
                            code |-> IF answer = "notfound" THEN 404 ELSE 200]
    /\ UNCHANGED <<trackerVars, pc, imageIdx, uploads, running, disk, timers, sweep, purge,
                   retryVars, modelsVars>>

\* checkJobStatus after its awaits: if (data && data.jobId) the processing
\* view is updated, and if data.status === 'completed' the polling is stopped
\* and the results are shown
StatusArrives(r) ==
    /\ r \in client.inflight
    /\ r.answer # "none"
    /\ LET received == [client EXCEPT !.inflight = @ \ {r}]
       IN  client' = IF r.answer = "completed"
                     THEN showResultsSection(stopPolling(received), r.jobId)
                     ELSE received
    /\ UNCHANGED <<trackerVars, serverVars, retryVars, modelsVars>>

\* resetApp, on a click of the New Batch button of the results section
resetApp ==
    /\ client.view = "results"
    /\ client' = [stopPolling([client EXCEPT !.currentJobId = Null]) EXCEPT !.view = "upload"]
    /\ UNCHANGED <<trackerVars, serverVars, retryVars, modelsVars>>

(* ------------------------------- Init --------------------------------- *)

\* new QueueManager(maxConcurrent) for one of the given limits, before any
\* request; ids are the job ids that will be handed out
InitServerState(ids, limits) ==
    /\ jobs = [jobId \in {} |-> Null]
    /\ activeJobs = {}
    /\ queue = <<>>
    /\ emitted = <<>>
    /\ jobCompleteCount = [j \in ids |-> 0]
    /\ now = FirstTime
    /\ usedIds = {}
    /\ lastCall = [op |-> "constructor"]
    /\ maxConcurrent \in limits
    /\ pc = [j \in ids |-> "none"]
    /\ imageIdx = [j \in ids |-> 0]
    /\ uploads = [j \in ids |-> <<>>]
    /\ running = NoFlow
    /\ disk = {}
    /\ timers = [j \in ids |-> 0]
    /\ sweep = [j \in ids |-> 0]
    /\ purge = [j \in ids |-> 0]
    /\ response = NoResponse

\* no request to the models route was made, no page of the client is open
InitIdle == models = ModelsStart /\ client = ClientStart

InitWith(ids, limits) == InitServerState(ids, limits) /\ retry = RetryIdle /\ InitIdle

Init == InitWith(JobIds, {DefaultMaxConcurrent})

(* the tracker under arbitrary calls: any caller, any order, any arguments *)

\* one more call fits in the behaviour; the server's flows stand still
TrackerOnly == now <= MaxOps /\ UNCHANGED <<serverVars, retryVars, modelsVars, clientVars>>

Next ==
    \/ \E jobId \in JobIds, imagePaths \in PathLists :
          TrackerOnly /\ createJob(jobId, imagePaths)
    \/ \E jobId \in JobIds : TrackerOnly /\ startJob(jobId)
    \/ \E jobId \in JobIds, imageIndex \in ImageIndexes, status \in NewStatuses,
          data \in DataValues :
          TrackerOnly /\ updateImageStatus(jobId, imageIndex, status, data)
    \/ \E jobId \in JobIds : TrackerOnly /\ removeJob(jobId)
    \/ TrackerOnly /\ Query("canStartNewJob", canStartNewJob)
    \/ TrackerOnly /\ Query("getNextJob", getNextJob)
    \/ TrackerOnly /\ Query("getStats", getStats)

Spec == Init /\ [][Next]_vars

(* the tracker as the server drives it: uploads, processJob flows, cleanups *)

\* a step of the server; no processImageWithRetry call is looked into
FlowOnly == UNCHANGED <<retryVars, modelsVars, clientVars>>

NextServer ==
    \/ \E jobId \in JobIds, imagePaths \in PathLists : FlowOnly /\ Upload(jobId, imagePaths)
    \/ \E jobId \in JobIds : FlowOnly /\ ProcessJobStart(jobId)
    \/ \E jobId \in JobIds, throws \in BOOLEAN : FlowOnly /\ CreateProcessor(jobId, throws)
    \/ \E jobId \in JobIds : FlowOnly /\ LoopStep(jobId)
    \/ \E jobId \in JobIds, outcome \in ProviderOutcomes :
          FlowOnly /\ ProviderReturns(jobId, outcome)
    \/ \E jobId \in JobIds : FlowOnly /\ FatalStep(jobId)
    \/ \E jobId \in JobIds : FlowOnly /\ Cleanup(jobId)
    \/ \E jobId \in JobIds : FlowOnly /\ CleanupUnlinked(jobId)

\* const maxConcurrent = parseInt(process.env.MAX_CONCURRENT_REQUESTS) || 3
ServerLimits == {1, DefaultMaxConcurrent}

InitServer == InitWith(JobIds, ServerLimits)

SpecServer == InitServer /\ [][NextServer]_vars

(* one job through the whole server: its processJob flow, the download and
   cleanup routes called at any moment, and the cleanup timer *)

RouteIds == {"A"}

InitRoutes == InitWith(RouteIds, {DefaultMaxConcurrent})

\* a step of the processJob flow of the job
FlowStep(jobId) ==
    \/ FlowOnly /\ ProcessJobStart(jobId)
    \/ \E throws \in BOOLEAN : FlowOnly /\ CreateProcessor(jobId, throws)
    \/ FlowOnly /\ LoopStep(jobId)
    \/ \E outcome \in ProviderOutcomes : FlowOnly /\ ProviderReturns(jobId, outcome)
    \/ FlowOnly /\ FatalStep(jobId)

NextRoutes ==
    \/ \E jobId \in RouteIds, imagePaths \in PathLists : FlowOnly /\ Upload(jobId, imagePaths)
    \/ \E jobId \in RouteIds : FlowStep(jobId)
    \/ \E jobId \in RouteIds : FlowOnly /\ Cleanup(jobId)
    \/ \E jobId \in RouteIds : FlowOnly /\ CleanupUnlinked(jobId)
    \/ \E jobId \in RouteIds : FlowOnly /\ TimerFires(jobId)
    \/ \E jobId \in RouteIds : FlowOnly /\ Unlinked(jobId)
    \/ \E jobId \in RouteIds : FlowOnly /\ Download(jobId)

\* the synchronous code of a flow runs on, every awaited provider call
\* settles (it returns or throws); requests and timers come when they come
SpecRoutes ==
    InitRoutes /\ [][NextRoutes]_vars /\ \A jobId \in RouteIds : WF_vars(FlowStep(jobId))

(* one job at a time, uploads of every size the route can be sent: none,
   one, the most that multer lets through, and one more *)

UploadSizes == {0, 1, UploadFileLimit, UploadFileLimit + 1}
UploadNames(n) == [k \in 1 .. n |-> "f" \o ToString(k)]

NextUpload ==
    \/ \E jobId \in RouteIds, n \in UploadSizes : FlowOnly /\ Upload(jobId, UploadNames(n))
    \/ \E jobId \in RouteIds : FlowOnly /\ ProcessJobStart(jobId)
    \/ \E jobId \in RouteIds : FlowOnly /\ CreateProcessor(jobId, FALSE)
    \/ \E jobId \in RouteIds : FlowOnly /\ LoopStep(jobId)
    \/ \E jobId \in RouteIds : FlowOnly /\ ProviderReturns(jobId, "success")
    \/ \E jobId \in RouteIds : FlowOnly /\ Cleanup(jobId)
    \/ \E jobId \in RouteIds : FlowOnly /\ CleanupUnlinked(jobId)

SpecUpload == InitRoutes /\ [][NextUpload]_vars

(* one job at a time, uploads with every combination of provider and keys *)

NextForms ==
    \/ \E jobId \in RouteIds, imagePaths \in PathLists, form \in UploadForms :
          FlowOnly /\ UploadForm(jobId, imagePaths, form)
    \/ \E jobId \in RouteIds : FlowStep(jobId)
    \/ \E jobId \in RouteIds : FlowOnly /\ Cleanup(jobId)
    \/ \E jobId \in RouteIds : FlowOnly /\ CleanupUnlinked(jobId)

SpecForms == InitRoutes /\ [][NextForms]_vars

(* the tracker as a scheduler sees it: one-image jobs that are created,
   started, resolved and removed while the queries are polled *)

\* number of tracker calls in one behaviour of the scheduling scenarios
MaxSlotOps == 6

SlotIds == {"A", "B", "C"}
\* generateJobId: a fresh id at every upload; the ids are handed out in this order
SlotIdOrder == << "A", "B", "C" >>
FreshSlotIds ==
    { SlotIdOrder[k] : k \in { n \in DOMAIN SlotIdOrder :
                                   /\ SlotIdOrder[n] \notin usedIds
                                   /\ \A m \in 1..(n - 1) : SlotIdOrder[m] \in usedIds } }
\* MAX_CONCURRENT_REQUESTS as configured for the scenarios
SlotLimits == {1, 2}

SlotOnly == now <= MaxSlotOps /\ UNCHANGED <<serverVars, retryVars, modelsVars, clientVars>>

InitSlots == InitWith(SlotIds, SlotLimits)

NextSlots ==
    \/ \E jobId \in FreshSlotIds : SlotOnly /\ createJob(jobId, << "p1" >>)
    \/ \E jobId \in SlotIds : SlotOnly /\ startJob(jobId)
    \/ \E jobId \in SlotIds, status \in NewStatuses :
          SlotOnly /\ updateImageStatus(jobId, 0, status, NoData)
    \/ \E jobId \in SlotIds : SlotOnly /\ removeJob(jobId)
    \/ SlotOnly /\ Query("canStartNewJob", canStartNewJob)
    \/ SlotOnly /\ Query("getNextJob", getNextJob)
    \/ SlotOnly /\ Query("getStats", getStats)

SpecSlots == InitSlots /\ [][NextSlots]_vars

(* one call of processImageWithRetry, for every way its attempts can settle *)

\* the state at the entry of the call, for one of the maxRetries arguments
InitRetry ==
    /\ InitServerState(JobIds, {DefaultMaxConcurrent})
    /\ retry \in { RetryStart(maxRetries) : maxRetries \in RetryLimits }
    /\ InitIdle

NextRetry ==
    \/ RetryLoop
    \/ \E outcome \in AttemptOutcomes : RetrySettles(outcome)
    \/ RetryBackoffEnds

\* every awaited call settles and every backoff timer fires
SpecRetry == InitRetry /\ [][NextRetry]_vars /\ WF_vars(NextRetry)

(* the models route under requests that overlap, while time passes *)

NextModels ==
    \/ \E d \in ClockSteps : ModelsTick(d)
    \/ \E r \in ModelRequests : ModelsRequest(r)
    \/ \E r \in ModelRequests, outcome \in UpstreamOutcomes : ModelsSettles(r, outcome)

SpecModels == Init /\ [][NextModels]_vars

(* the browser client of one job, with the server that answers it *)

NextClient ==
    \/ \E jobId \in RouteIds, imagePaths \in PathLists : FlowOnly /\ Upload(jobId, imagePaths)
    \/ \E jobId \in RouteIds : FlowStep(jobId)
    \/ \E jobId \in RouteIds : ClientUploadAnswered(jobId)
    \/ ClientTimerFires
    \/ \E r \in client.inflight : StatusHandled(r)
    \/ \E r \in client.inflight : StatusArrives(r)
    \/ resetApp

SpecClient == InitRoutes /\ [][NextClient]_vars

(* ======================= properties of the tracker ==================== *)

\* the last call was an updateImageStatus, a startJob, ... (read in the state after it)
LastWas(op) == lastCall.op = op

\* the sum of the three moving counters of a job
ProgressSum(job) == job.progress.completed + job.progress.failed + job.progress.pending

\* jobs registered before and after a step
Surviving == Registered \cap Registered'

\* the call just made was an updateImageStatus that passed both early returns
AcceptedUpdateStep ==
    /\ lastCall'.op = "updateImageStatus"
    /\ UpdateAccepted(lastCall'.jobId, lastCall'.imageIndex)

\* the call just made was an updateImageStatus that returned early
RejectedUpdateStep ==
    /\ lastCall'.op = "updateImageStatus"
    /\ ~UpdateAccepted(lastCall'.jobId, lastCall'.imageIndex)

Count(es, type, jobId) ==
    Cardinality({ k \in DOMAIN es : es[k].type = type /\ es[k].jobId = jobId })

(* C1: for every registered job, in every reachable state,
   progress.completed + progress.failed + progress.pending = progress.total. *)
C1_ProgressSumIsTotal ==
    \A j \in Registered : ProgressSum(jobs[j]) = jobs[j].progress.total

(* C2: jobComplete is emitted for a job exactly once, at the call in which its
   last non-terminal image becomes terminal, and never again; completedAt is
   assigned only at that call. *)
C2_JobCompleteExactlyOnce ==
    [][ \A j \in Surviving :
          LET resolving == ~allDone(jobs[j].images) /\ allDone(jobs'[j].images)
          IN  /\ (Count(emitted', "jobComplete", j) > 0) <=> resolving
              /\ (jobs'[j].completedAt # jobs[j].completedAt) => resolving
              /\ jobCompleteCount'[j] <= 1 ]_vars

(* C3 as stated: in every reachable state of a job with at least one image,
   status = completed if and only if every image is completed or failed. *)
C3_CompletedIffAllDone ==
    \A j \in Registered :
        Len(jobs[j].images) >= 1 =>
            (jobs[j].status = "completed" <=> allDone(jobs[j].images))

(* C3 as amended: a job with at least one image takes status completed only in
   a call after which every image is completed or failed, and every accepted
   updateImageStatus call after which every image is completed or failed
   leaves the job completed with completedAt set. *)
C3_CompletedWhenLastImageResolves ==
    [][ \A j \in Surviving :
          Len(jobs[j].images) >= 1 =>
            /\ (jobs[j].status # "completed" /\ jobs'[j].status = "completed")
                   => (AcceptedUpdateStep /\ lastCall'.jobId = j
                         /\ allDone(jobs'[j].images))
            /\ (AcceptedUpdateStep /\ lastCall'.jobId = j /\ allDone(jobs'[j].images))
                   => (jobs'[j].status = "completed" /\ jobs'[j].completedAt # NullTime) ]_vars

\* a two-image job completed by the last call: image 0 completed, then image 1 failed
C3_Witness ==
    /\ LastWas("updateImageStatus")
    /\ lastCall.jobId \in Registered
    /\ LET job == jobs[lastCall.jobId]
       IN  /\ Len(job.images) = 2
           /\ lastCall.imageIndex = 1
           /\ job.images[1].status = "completed"
           /\ job.images[2].status = "failed"
           /\ job.status = "completed"
           /\ job.completedAt # NullTime

StatusRank(status) ==
    CASE status = "pending" -> 0
      [] status = "processing" -> 1
      [] status = "completed" -> 2

(* C4: a job's status only moves forward along pending -> processing ->
   completed; it never goes back from completed, and it leaves pending at
   most once. *)
C4_JobStatusOnlyForward ==
    [][ \A j \in Surviving :
          StatusRank(jobs'[j].status) >= StatusRank(jobs[j].status) ]_vars

TerminalStatuses == {"completed", "failed"}

\* the status of every image that a step changed, as << before, after >>
StatusChanges ==
    { << jobs[ji[1]].images[ji[2]].status, jobs'[ji[1]].images[ji[2]].status >> :
        ji \in { x \in Surviving \X (1..(MaxImages + 1)) :
                    /\ x[2] \in DOMAIN jobs[x[1]].images
                    /\ jobs[x[1]].images[x[2]].status # jobs'[x[1]].images[x[2]].status } }

(* C5 as stated: under any sequence of updateImageStatus calls the tracker
   accepts, an image's status never regresses, and once it is completed or
   failed it does not change again. *)
C5_ImageStatusNeverRegresses ==
    [][ \A change \in StatusChanges :
          /\ change[1] \notin TerminalStatuses
          /\ change[2] # "pending"
          /\ change[1] = "processing" => change[2] \in TerminalStatuses ]_vars

(* C5 as amended: under any sequence of accepted updateImageStatus calls, an
   image's status changes only through an accepted call for its own index,
   which sets it to the requested status whatever it was before, and it never
   returns to pending; a completed or failed image is overwritten like any
   other. *)
C5_ImageStatusFollowsLastCall ==
    [][ /\ \A change \in StatusChanges : change[2] # "pending"
        /\ \A j \in Surviving, i \in 1..(MaxImages + 1) :
              i \in DOMAIN jobs[j].images =>
                  IF AcceptedUpdateStep /\ lastCall'.jobId = j
                        /\ lastCall'.imageIndex + 1 = i
                  THEN jobs'[j].images[i].status = lastCall'.status
                  ELSE jobs'[j].images[i].status = jobs[j].images[i].status ]_vars

\* an image that was completed, with its output, has been moved back to processing
C5_Witness ==
    /\ LastWas("updateImageStatus")
    /\ lastCall.status = "processing"
    /\ lastCall.jobId \in Registered
    /\ HasImage(jobs[lastCall.jobId], lastCall.imageIndex)
    /\ LET image == jobs[lastCall.jobId].images[lastCall.imageIndex + 1]
       IN  /\ image.status = "processing"
           /\ image.outputPath = "out1"
           /\ jobs[lastCall.jobId].progress.completed = 1

(* C6: progress.pending is decremented at most once per image index: only a
   call on an index whose image was still pending lowers it, by one; a call on
   an index updated before leaves it unchanged; 0 <= pending <= total. *)
C6_PendingDecrementedOncePerIndex ==
    [][ /\ \A j \in Registered' :
              /\ 0 <= jobs'[j].progress.pending
              /\ jobs'[j].progress.pending <= jobs'[j].progress.total
        /\ \A j \in Surviving :
              LET firstUpdate ==
                      /\ AcceptedUpdateStep
                      /\ lastCall'.jobId = j
                      /\ jobs[j].images[lastCall'.imageIndex + 1].status = "pending"
              IN  jobs'[j].progress.pending =
                      jobs[j].progress.pending - (IF firstUpdate THEN 1 ELSE 0) ]_vars

\* image 0 of a two-image job was marked completed and then failed
C6_Witness ==
    /\ LastWas("updateImageStatus")
    /\ lastCall.jobId \in Registered
    /\ lastCall.imageIndex = 0
    /\ lastCall.status = "failed"
    /\ LET job == jobs[lastCall.jobId]
       IN  /\ Len(job.images) = 2
           /\ job.images[1].status = "failed"
           /\ job.progress.completed = 1
           /\ job.progress.failed = 1
           /\ job.progress.pending = 1

(* C7: createJob(jobId, paths) with N paths registers a pending job with N
   pending images in the order of paths, no outputPath and no error,
   progress {total N, completed 0, failed 0, pending N}, completedAt unset;
   it appends jobId to the tail of the queue, emits nothing and changes no
   other job nor the active set. *)
C7_CreateJobEffect ==
    [][ lastCall'.op = "createJob" =>
          LET jobId == lastCall'.jobId
              paths == lastCall'.imagePaths
              job == jobs'[jobId]
          IN  /\ Registered' = Registered \cup {jobId}
              /\ job.jobId = jobId
              /\ job.status = "pending"
              /\ Len(job.images) = Len(paths)
              /\ \A i \in 1..Len(paths) :
                    /\ job.images[i].path = paths[i]
                    /\ job.images[i].status = "pending"
                    /\ job.images[i].outputPath = Null
                    /\ job.images[i].error = Null
              /\ job.progress.total = Len(paths)
              /\ job.progress.completed = 0
              /\ job.progress.failed = 0
              /\ job.progress.pending = Len(paths)
              /\ job.completedAt = NullTime
              /\ Len(queue') = Len(queue) + 1
              /\ queue'[Len(queue')] = jobId
              /\ SubSeq(queue', 1, Len(queue)) = queue
              /\ emitted' = << >>
              /\ activeJobs' = activeJobs
              /\ \A other \in Registered \ {jobId} : jobs'[other] = jobs[other] ]_vars

\* a second job was created from two paths in reverse order, behind the first
C7_Witness ==
    /\ LastWas("createJob")
    /\ lastCall.imagePaths = << "p2", "p1" >>
    /\ Len(queue) = 2
    /\ queue[2] = lastCall.jobId
    /\ jobs[lastCall.jobId].images[1].path = "p2"
    /\ jobs[lastCall.jobId].progress.pending = 2

(* C8: updateImageStatus with an unknown job id or an index outside
   0..length-1 is a silent no-op: no job record, counter, active set or queue
   changes, and neither jobUpdate nor jobComplete is emitted. *)
C8_InvalidUpdateIsNoOp ==
    [][ RejectedUpdateStep =>
          /\ jobs' = jobs
          /\ activeJobs' = activeJobs
          /\ queue' = queue
          /\ jobCompleteCount' = jobCompleteCount
          /\ emitted' = << >> ]_vars

\* an update was just made past the end of the images of a registered job,
\* which is left as created
C8_Witness ==
    /\ LastWas("updateImageStatus")
    /\ lastCall.jobId \in Registered
    /\ Len(jobs[lastCall.jobId].images) = 1
    /\ lastCall.imageIndex = 1
    /\ lastCall.status = "completed"
    /\ jobs[lastCall.jobId].images[1].status = "pending"
    /\ jobs[lastCall.jobId].progress.pending = 1
    /\ jobs[lastCall.jobId].status = "pending"
    /\ emitted = << >>

(* C9: every updateImageStatus call on a registered job with a valid index
   emits exactly one jobUpdate carrying the job id and the job, whether or not
   the job became complete; a jobComplete of the same call comes first. *)
C9_JobUpdateAlwaysEmittedLast ==
    [][ AcceptedUpdateStep =>
          LET jobId == lastCall'.jobId
              last == emitted'[Len(emitted')]
          IN  /\ Len(emitted') >= 1
              /\ last = [type |-> "jobUpdate", jobId |-> jobId, job |-> jobs'[jobId]]
              /\ \A k \in DOMAIN emitted' :
                    /\ emitted'[k].type = "jobUpdate" => k = Len(emitted')
                    /\ emitted'[k].type = "jobComplete" => k < Len(emitted')
                    /\ emitted'[k].jobId = jobId ]_vars

\* the last call resolved the job: jobComplete, then jobUpdate with the completed job
C9_Witness ==
    /\ LastWas("updateImageStatus")
    /\ Len(emitted) = 2
    /\ emitted[1].type = "jobComplete"
    /\ emitted[2].type = "jobUpdate"
    /\ emitted[2].job.status = "completed"

(* C10: startJob(jobId) on a registered job sets its status to processing,
   adds the id to the active set, removes it from the pending queue and emits
   exactly one jobStart(jobId); the job's images and progress, the relative
   order of the other queued ids and every other job are unchanged. *)
C10_StartJobEffect ==
    [][ (lastCall'.op = "startJob" /\ lastCall'.jobId \in Registered) =>
          LET jobId == lastCall'.jobId
          IN  /\ Registered' = Registered
              /\ jobs'[jobId].status = "processing"
              /\ jobs'[jobId].images = jobs[jobId].images
              /\ jobs'[jobId].progress = jobs[jobId].progress
              /\ activeJobs' = activeJobs \cup {jobId}
              /\ \A k \in DOMAIN queue' : queue'[k] # jobId
              /\ queue' = SelectSeq(queue, LAMBDA id : id # jobId)
              /\ emitted' = << [type |-> "jobStart", jobId |-> jobId] >>
              /\ \A other \in Registered \ {jobId} : jobs'[other] = jobs[other] ]_vars

\* the second of two queued jobs was started: the first is still queued
C10_Witness ==
    /\ LastWas("startJob")
    /\ lastCall.jobId \in Registered
    /\ lastCall.jobId \in activeJobs
    /\ Len(queue) = 1
    /\ queue[1] # lastCall.jobId
    /\ jobs[queue[1]].status = "pending"
    /\ jobs[lastCall.jobId].status = "processing"

\* the id is in the queue
Queued(q, jobId) == \E k \in DOMAIN q : q[k] = jobId

(* C11: startJob(jobId) on an id that is not registered does nothing: the
   jobs, the active set and the queue are the same after the call as before
   it, getStats() returns the same record, the call returns normally and no
   jobStart (no notification at all) is emitted. *)
C11_StartUnknownIsNoOp ==
    [][ (lastCall'.op = "startJob" /\ lastCall'.jobId \notin Registered) =>
          /\ jobs' = jobs
          /\ activeJobs' = activeJobs
          /\ queue' = queue
          /\ getStats' = getStats
          /\ emitted' = <<>> ]_vars

\* an unknown id was started while another job sat in the queue
C11_Witness ==
    /\ LastWas("startJob")
    /\ lastCall.jobId \notin Registered
    /\ lastCall.jobId \notin usedIds
    /\ Len(queue) = 1
    /\ jobs[queue[1]].status = "pending"
    /\ activeJobs = {}
    /\ emitted = <<>>

(* C12: canStartNewJob() returns true exactly when the active set holds
   fewer than maxConcurrent ids and the queue is not empty, and the call
   changes nothing in the tracker and emits nothing. *)
C12_CanStartIffSlotAndQueued ==
    [][ lastCall'.op = "canStartNewJob" =>
          /\ lastCall'.result \in BOOLEAN
          /\ lastCall'.result <=>
                (Cardinality(activeJobs) < maxConcurrent /\ Len(queue) > 0)
          /\ UNCHANGED <<jobs, activeJobs, queue, maxConcurrent, jobCompleteCount>>
          /\ emitted' = <<>> ]_vars

\* the query answered false with a job queued, because the active set was full
C12_Witness ==
    /\ LastWas("canStartNewJob")
    /\ lastCall.result = FALSE
    /\ Len(queue) > 0
    /\ Cardinality(activeJobs) = maxConcurrent

\* the queued ids stand in the order in which their jobs were created
QueueInCreationOrder ==
    /\ \A k \in DOMAIN queue : queue[k] \in Registered
    /\ \A k, l \in DOMAIN queue :
          k < l => jobs[queue[k]].createdAt < jobs[queue[l]].createdAt

(* C13: getNextJob() returns the id at the head of the queue and leaves it
   there, or null when the queue is empty. The head is the earliest-created
   job that was neither started nor removed: the queue is in creation order,
   an id enters it only when its job is created, and an id leaves it only
   when that job is started or removed. *)
C13_NextJobIsFifoHead ==
    [][ /\ lastCall'.op = "getNextJob" =>
              /\ lastCall'.result = (IF queue = <<>> THEN Null ELSE Head(queue))
              /\ UNCHANGED <<jobs, activeJobs, queue>>
              /\ emitted' = <<>>
        /\ QueueInCreationOrder'
        /\ \A jobId \in Registered' :
              Queued(queue', jobId) <=>
                 \/ jobId \notin Registered
                 \/ /\ Queued(queue, jobId)
                    /\ ~(lastCall'.op = "startJob" /\ lastCall'.jobId = jobId) ]_vars

\* the first job was started, so the query names the second of three jobs
C13_Witness ==
    /\ LastWas("getNextJob")
    /\ lastCall.result = "B"
    /\ queue = << "B", "C" >>
    /\ "A" \in activeJobs

(* C14: removeJob(jobId) deletes the job's record and takes the id out of
   the active set and out of the queue, so that getJob(jobId) finds nothing
   afterwards; on an id without a record it changes nothing (a second call
   is a no-op); no other job, and no other id's place in the queue or in the
   active set, is affected. *)
C14_RemoveJobEffect ==
    [][ lastCall'.op = "removeJob" =>
          LET jobId == lastCall'.jobId
          IN  /\ jobId \notin Registered'
              /\ Registered' = Registered \ {jobId}
              /\ \A other \in Registered \ {jobId} : jobs'[other] = jobs[other]
              /\ activeJobs' = activeJobs \ {jobId}
              /\ queue' = SelectSeq(queue, LAMBDA id : id # jobId)
              /\ ~Queued(queue', jobId)
              /\ emitted' = <<>>
              /\ (jobId \notin Registered /\ jobId \notin activeJobs) =>
                     (jobs' = jobs /\ activeJobs' = activeJobs /\ queue' = queue) ]_vars

\* the first of two queued jobs was removed: the second is alone in the queue
C14_Witness ==
    /\ LastWas("removeJob")
    /\ lastCall.jobId \in usedIds
    /\ lastCall.jobId \notin Registered
    /\ Cardinality(Registered) = 1
    /\ Len(queue) = 1
    /\ queue[1] \in Registered
    /\ jobs[queue[1]].status = "pending"

(* C15: when an accepted update leaves every image of a job completed or
   failed, the id is not in the active set afterwards; and if that job was
   active, the active set was full and a job was queued, canStartNewJob()
   was false before the update and is true after it. *)
C15_ResolvedJobFreesSlot ==
    [][ \A jobId \in Surviving :
          ( /\ AcceptedUpdateStep
            /\ lastCall'.jobId = jobId
            /\ \A k \in DOMAIN jobs'[jobId].images :
                  jobs'[jobId].images[k].status \in TerminalStatuses ) =>
             /\ jobId \notin activeJobs'
             /\ ( /\ jobId \in activeJobs
                  /\ Cardinality(activeJobs) = maxConcurrent
                  /\ Len(queue) > 0 ) =>
                    /\ ~(Cardinality(activeJobs) < maxConcurrent /\ Len(queue) > 0)
                    /\ Cardinality(activeJobs') < maxConcurrent /\ Len(queue') > 0 ]_vars

\* limit 2, A and B started, C queued, then A's only image resolved
C15_Witness ==
    /\ maxConcurrent = 2
    /\ LastWas("updateImageStatus")
    /\ lastCall.jobId = "A"
    /\ lastCall.imageIndex = 0
    /\ "A" \in Registered
    /\ jobs["A"].status = "completed"
    /\ activeJobs = {"B"}
    /\ queue = << "C" >>

(* C16: while the server runs, the number of ids in the active set never
   exceeds maxConcurrent. *)
C16_ActiveWithinLimit == Cardinality(activeJobs) <= maxConcurrent

(* C17: startJob(jobId) on a registered job never refuses because of the
   limit: with the active set already holding maxConcurrent ids or more, the
   job is still set to processing, added to the active set and announced by
   jobStart, so the active set grows past maxConcurrent. *)
C17_StartJobIgnoresLimit ==
    [][ ( /\ lastCall'.op = "startJob"
          /\ lastCall'.jobId \in Registered
          /\ lastCall'.jobId \notin activeJobs
          /\ Cardinality(activeJobs) >= maxConcurrent ) =>
             /\ lastCall'.jobId \in activeJobs'
             /\ jobs'[lastCall'.jobId].status = "processing"
             /\ emitted' = << [type |-> "jobStart", jobId |-> lastCall'.jobId] >>
             /\ Cardinality(activeJobs') = Cardinality(activeJobs) + 1
             /\ Cardinality(activeJobs') > maxConcurrent ]_vars

\* a start went through although the active set was full
C17_Witness ==
    /\ LastWas("startJob")
    /\ lastCall.jobId \in activeJobs
    /\ Cardinality(activeJobs) > maxConcurrent
    /\ \A jobId \in activeJobs : jobs[jobId].status = "processing"

(* C18: in every reachable state, an image has an outputPath only if its
   status is completed, and an error only if its status is failed. *)
C18_FieldsMatchStatus ==
    \A jobId \in Registered :
        \A k \in DOMAIN jobs[jobId].images :
            LET image == jobs[jobId].images[k]
            IN  /\ image.outputPath # Null => image.status = "completed"
                /\ image.error # Null => image.status = "failed"

\* the fields of an image that a payload can set
DataFields(r) == << r.outputPath, r.error, r.analysis >>

(* C19: an accepted updateImageStatus overwrites, among outputPath, error
   and analysis, only the fields its payload provides: a field the payload
   does not provide keeps its value, a field that changes takes the
   payload's value, and a call without payload leaves all three alone. The
   image's path and every other image of the job are never changed. *)
C19_OnlyProvidedFieldsOverwritten ==
    [][ \A jobId \in Surviving :
          ( /\ AcceptedUpdateStep
            /\ lastCall'.jobId = jobId ) =>
             LET i == lastCall'.imageIndex + 1
                 data == lastCall'.data
                 before == jobs[jobId].images[i]
                 after == jobs'[jobId].images[i]
             IN  /\ after.path = before.path
                 /\ \A f \in 1..3 :
                       /\ DataFields(data)[f] = Undefined =>
                             DataFields(after)[f] = DataFields(before)[f]
                       /\ DataFields(after)[f] # DataFields(before)[f] =>
                             DataFields(after)[f] = DataFields(data)[f]
                 /\ data = NoData => DataFields(after) = DataFields(before)
                 /\ DOMAIN jobs'[jobId].images = DOMAIN jobs[jobId].images
                 /\ \A k \in DOMAIN jobs[jobId].images \ {i} :
                       jobs'[jobId].images[k] = jobs[jobId].images[k] ]_vars

\* a call without payload on an image that carried an outputPath and an analysis
C19_Witness ==
    /\ LastWas("updateImageStatus")
    /\ lastCall.data = NoData
    /\ lastCall.jobId \in Registered
    /\ lastCall.imageIndex + 1 \in DOMAIN jobs[lastCall.jobId].images
    /\ LET image == jobs[lastCall.jobId].images[lastCall.imageIndex + 1]
       IN  /\ image.outputPath = "out1"
           /\ image.analysis = "text"
           /\ image.error = Null
           /\ image.status = lastCall.status

(* C20: a job without images counts as completed as soon as it is started:
   after startJob on such a job its status is completed, its id is not in
   the active set and a jobComplete notification for it was emitted. *)
C20_EmptyJobCompletesOnStart ==
    \A jobId \in Registered :
        ( /\ LastWas("startJob")
          /\ lastCall.jobId = jobId
          /\ Len(jobs[jobId].images) = 0 ) =>
            /\ jobs[jobId].status = "completed"
            /\ jobId \notin activeJobs
            /\ jobCompleteCount[jobId] >= 1

\* the statuses a job as a whole can take
JobStatuses == {"pending", "processing", "completed"}

(* C21: the status of a job is always pending, processing or completed, never
   failed; and a job all of whose images are failed has status completed and
   progress.failed = progress.total. *)
C21_AllFailedJobIsCompleted ==
    \A jobId \in Registered :
        LET job == jobs[jobId]
        IN  /\ job.status \in JobStatuses
            /\ ( /\ Len(job.images) > 0
                 /\ \A k \in DOMAIN job.images : job.images[k].status = "failed" ) =>
                   /\ job.status = "completed"
                   /\ job.progress.failed = job.progress.total

\* the number of images of a job that have the given status
ImagesWith(job, status) ==
    Cardinality({ k \in DOMAIN job.images : job.images[k].status = status })

(* C26: in every reachable state the counters of a job equal what its images
   say: progress.completed is the number of completed images, progress.failed
   the number of failed images and progress.pending the number of pending
   images. *)
C26_CountersMatchImages ==
    \A jobId \in Registered :
        LET job == jobs[jobId]
        IN  /\ job.progress.completed = ImagesWith(job, "completed")
            /\ job.progress.failed = ImagesWith(job, "failed")
            /\ job.progress.pending = ImagesWith(job, "pending")

\* the paths of a job's images, in order
PathsOf(job) == [k \in DOMAIN job.images |-> job.images[k].path]

(* C22: a job record stays registered until removeJob is called for its id:
   no startJob, updateImageStatus, completion or query deletes a job, and
   removeJob deletes no job but its own. As long as the job is registered its
   progress.total, the number of its images, their order and their paths are
   what they were at creation. *)
C22_JobRetainedUntilRemoved ==
    [][ /\ lastCall'.op # "removeJob" => Registered \subseteq Registered'
        /\ lastCall'.op = "removeJob" =>
              Registered \ Registered' \subseteq {lastCall'.jobId}
        /\ \A jobId \in Surviving :
              /\ jobs'[jobId].progress.total = jobs[jobId].progress.total
              /\ Len(jobs'[jobId].images) = Len(jobs[jobId].images)
              /\ PathsOf(jobs'[jobId]) = PathsOf(jobs[jobId])
              /\ jobs'[jobId].progress.total = Len(PathsOf(jobs'[jobId])) ]_vars

\* a job whose two images are resolved is still registered, its paths in the
\* order of the upload
C22_Witness ==
    /\ "A" \in Registered
    /\ jobs["A"].status = "completed"
    /\ jobs["A"].completedAt # NullTime
    /\ jobs["A"].progress.total = 2
    /\ PathsOf(jobs["A"]) = << "p2", "p1" >>
    /\ jobs["A"].images[1].outputPath = "out1"
    /\ "A" \notin activeJobs

\* what holds of a processImageWithRetry call at every moment
RetryWithinLimit ==
    /\ retry.calls <= retry.maxRetries + 1
    /\ retry.calls \in {Len(retry.trace), Len(retry.trace) + 1}
    /\ \A k \in 1 .. (Len(retry.trace) - 1) : retry.trace[k].kind # "success"
    /\ retry.pc \in {"loop", "call", "backoff", "returned"}
    /\ retry.pc = "returned" =>
          /\ retry.calls = Len(retry.trace)
          /\ IF \E k \in DOMAIN retry.trace : retry.trace[k].kind = "success"
             THEN /\ retry.result = AttemptSuccess
                  /\ retry.trace[Len(retry.trace)].kind = "success"
             ELSE /\ retry.result.success = FALSE
                  /\ retry.trace # <<>> =>
                        retry.result.error = retry.trace[Len(retry.trace)].error

\* the awaited call of attempt number k has just settled without success
AttemptFailed(k) ==
    /\ retry.pc = "call"
    /\ retry.attempt = k
    /\ Len(retry'.trace) = Len(retry.trace) + 1
    /\ retry'.trace[Len(retry'.trace)].kind # "success"

(* C31: between a failed attempt number k < maxRetries and the next attempt,
   processImageWithRetry waits 2^k seconds, whichever way the attempt failed
   (processImage returning success: false included). *)
C31_BackoffAfterEveryFailedAttempt ==
    [][\A k \in 0 .. MaxRetries :
          (AttemptFailed(k) /\ k < retry.maxRetries)
             => /\ retry'.pc = "backoff"
                /\ retry'.waits = Append(retry.waits, (2 ^ k) * 1000)]_vars

(* C30: processImageWithRetry(imagePath, maxRetries) calls the provider at
   most maxRetries + 1 times (3 with the default), returns the result of the
   first successful attempt and makes no attempt after it, returns
   {success: false} with the error of the last attempt when no attempt
   succeeds, and always comes to return a result: it has no exit by
   exception. *)
C30_RetryBoundedAndTerminates ==
    /\ []RetryWithinLimit
    /\ [][retry.pc = "returned" => retry' = retry]_vars
    /\ <>(retry.pc = "returned")

\* the default three attempts all failed, with different errors; the result
\* carries the error of the third
C30_Witness ==
    /\ retry.pc = "returned"
    /\ retry.maxRetries = DefaultMaxRetries
    /\ retry.calls = 3
    /\ retry.trace[1].error = "err1"
    /\ retry.trace[2].kind = "throws"
    /\ retry.trace[3].error = "err2"
    /\ retry.result = RetryFailure("err2")

(* C23: every job created through the upload route has between 1 and 20
   images: an upload without files is answered with an error and creates no
   job, an upload of more than 20 files creates no job either, and an
   accepted upload registers a job with exactly the files sent. *)
C23_UploadedJobsHave1To20Images ==
    /\ [](\A jobId \in Registered :
            /\ Len(jobs[jobId].images) >= 1
            /\ Len(jobs[jobId].images) <= UploadFileLimit)
    /\ [][ response'.route = "upload" =>
             /\ response'.files = 0 => response'.code = 400
             /\ response'.files > UploadFileLimit => response'.code # 200
             /\ response'.code # 200 => jobs' = jobs /\ queue' = queue
             /\ response'.code = 200 =>
                   /\ response'.files \in 1 .. UploadFileLimit
                   /\ response'.jobId \in Registered' \ Registered
                   /\ Len(jobs'[response'.jobId].images) = response'.files ]_vars

\* a job of 20 images is registered and an upload of 21 files was just refused
C23_Witness ==
    /\ "A" \in Registered
    /\ Len(jobs["A"].images) = UploadFileLimit
    /\ response.route = "upload"
    /\ response.files = UploadFileLimit + 1
    /\ response.code = 500

\* the output paths of the images of a job whose status is completed
CompletedOutputs(job) ==
    { job.images[k].outputPath : k \in { m \in DOMAIN job.images :
                                             job.images[m].status = "completed" } }

(* C24: the download route answers 404 for an unknown job and 400 for a job
   that is not completed; for a completed job it produces an archive that
   holds exactly the outputPath of every image whose status is completed,
   and an error instead of an archive when no image is completed. *)
C24_DownloadZipsCompletedOutputs ==
    response.route = "download" =>
        LET jobId == response.jobId
        IN  /\ response.code \in {200, 400, 404, 500}
            /\ response.code = 404 <=> jobId \notin Registered
            /\ jobId \in Registered =>
                  /\ response.code = 400 <=> jobs[jobId].status # "completed"
                  /\ response.code = 500 <=>
                        /\ jobs[jobId].status = "completed"
                        /\ CompletedOutputs(jobs[jobId]) = {}
                  /\ response.code = 200 =>
                        /\ Range(response.zip) = CompletedOutputs(jobs[jobId])
                        /\ Len(response.zip) = ImagesWith(jobs[jobId], "completed")

\* the uploads of a job
SourcesOf(jobId) == Range(uploads[jobId])

(* C25: an uploaded source file of a job is deleted only by the cleanup
   timer of that job: the timer is set by the job's jobComplete notification,
   it deletes only if the job is registered when it fires, and while a
   source file is deleted no image of the job is pending or processing. *)
C25_SourcesDeletedOnlyAfterCompletion ==
    [][ \A jobId \in DOMAIN timers :
          /\ timers'[jobId] > timers[jobId] =>
                now' # now /\ Count(emitted', "jobComplete", jobId) > 0
          /\ timers[jobId] > 0 => jobCompleteCount[jobId] > 0
          /\ (sweep[jobId] = 0 /\ sweep'[jobId] # 0) =>
                /\ timers[jobId] > 0
                /\ timers'[jobId] = timers[jobId] - 1
                /\ jobId \in Registered
          /\ \A path \in SourcesOf(jobId) :
                (path \in disk /\ path \notin disk') =>
                   /\ sweep[jobId] # 0
                   /\ jobCompleteCount[jobId] > 0
                   /\ jobId \in Registered =>
                         \A k \in DOMAIN jobs[jobId].images :
                            jobs[jobId].images[k].status \in TerminalStatuses ]_vars

\* the timer of a completed job has deleted the first of its two uploads
C25_Witness ==
    /\ "A" \in Registered
    /\ jobs["A"].status = "completed"
    /\ Len(uploads["A"]) = 2
    /\ sweep["A"] = 2
    /\ uploads["A"][1] \notin disk
    /\ uploads["A"][2] \in disk

\* the job is resolved: every image completed or failed, the counters add up
\* and the one jobComplete was emitted
Resolved(jobId) ==
    /\ jobId \in Registered
    /\ \A k \in DOMAIN jobs[jobId].images :
          jobs[jobId].images[k].status \in TerminalStatuses
    /\ jobs[jobId].status = "completed"
    /\ jobs[jobId].progress.completed + jobs[jobId].progress.failed
          = jobs[jobId].progress.total
    /\ jobs[jobId].progress.pending = 0
    /\ jobCompleteCount[jobId] = 1

(* C27: a job created by the upload route, whose provider calls all return or
   throw, is eventually removed or resolved: every image completed or failed,
   status completed, completed + failed = total, pending = 0, and jobComplete
   emitted once; this also when creating the processor throws. A resolved job
   stays resolved until it is removed, and jobComplete is never emitted a
   second time. *)
C27_UploadedJobIsResolved ==
    /\ \A jobId \in RouteIds :
          (pc[jobId] = "getJob") ~> (jobId \notin Registered \/ Resolved(jobId))
    /\ [](\A jobId \in RouteIds : jobCompleteCount[jobId] <= 1)
    /\ [][ \A jobId \in RouteIds :
              Resolved(jobId) => (Resolved(jobId)' \/ jobId \notin Registered') ]_vars

\* the flow of a two-image job is over: one image completed, one failed
C27_Witness ==
    /\ Resolved("A")
    /\ pc["A"] = "done"
    /\ jobs["A"].progress.total = 2
    /\ jobs["A"].progress.completed = 1
    /\ jobs["A"].progress.failed = 1
    /\ "A" \notin activeJobs

\* at most one image of a job is processing, and an image has left pending
\* only if every image before it is completed or failed
OneAtATime ==
    \A jobId \in Registered :
        LET images == jobs[jobId].images
        IN  /\ Cardinality({ k \in DOMAIN images : images[k].status = "processing" }) <= 1
            /\ \A k \in DOMAIN images :
                  images[k].status # "pending" =>
                     \A m \in 1 .. (k - 1) : images[m].status \in TerminalStatuses

(* C28: processJob handles the images of a job one after the other in index
   order: at most one image is processing at any time, image i leaves pending
   only after images 0..i-1 are completed or failed, and every image takes
   one processing update, on a pending image, and then one terminal update,
   on a processing image. *)
C28_EachImageProcessedThenResolved ==
    /\ []OneAtATime
    /\ [][ \A jobId \in Surviving :
             (AcceptedUpdateStep /\ lastCall'.jobId = jobId /\ now' # now) =>
                LET before == jobs[jobId].images[lastCall'.imageIndex + 1].status
                IN  /\ lastCall'.status = "processing" => before = "pending"
                    /\ lastCall'.status \in TerminalStatuses => before = "processing" ]_vars

(* C28, amended: as above when the processor was created; when creating the
   processor throws, every image takes no processing update and one failed
   update, on a pending image, in index order. *)
C28_SequentialOrFatal ==
    /\ []OneAtATime
    /\ [][ \A jobId \in Surviving :
             (AcceptedUpdateStep /\ lastCall'.jobId = jobId /\ now' # now) =>
                LET before == jobs[jobId].images[lastCall'.imageIndex + 1].status
                IN  /\ lastCall'.status = "processing" =>
                          before = "pending" /\ pc[jobId] = "loop"
                    /\ lastCall'.status \in TerminalStatuses =>
                          \/ before = "processing" /\ pc[jobId] = "await"
                          \/ /\ before = "pending"
                             /\ pc[jobId] = "fatal"
                             /\ lastCall'.status = "failed" ]_vars

\* the first image of a job is resolved and the second is with the provider
C28_Witness ==
    /\ "A" \in Registered
    /\ Len(jobs["A"].images) = 2
    /\ jobs["A"].images[1].status = "completed"
    /\ jobs["A"].images[2].status = "processing"
    /\ pc["A"] = "await"
    /\ imageIdx["A"] = 1

(* C29: when the processJob flows of several jobs interleave, a call of
   updateImageStatus, startJob or removeJob for one job leaves every other
   job's record as it is, and leaves every other job where it is in the
   active set and in the queue. *)
C29_CallsLeaveOtherJobsAlone ==
    [][ ( /\ now' # now
          /\ lastCall'.op \in {"updateImageStatus", "startJob", "removeJob"} ) =>
             \A other \in Registered \ {lastCall'.jobId} :
                /\ other \in Registered'
                /\ jobs'[other] = jobs[other]
                /\ other \in activeJobs' <=> other \in activeJobs
                /\ Queued(queue', other) <=> Queued(queue, other) ]_vars

\* the last image of job A was just resolved while job B has an image with
\* the provider and is still active
C29_Witness ==
    /\ LastWas("updateImageStatus")
    /\ lastCall.jobId = "A"
    /\ "A" \in Registered /\ "B" \in Registered
    /\ jobs["A"].status = "completed"
    /\ "A" \notin activeJobs
    /\ "B" \in activeJobs
    /\ pc["B"] = "await"
    /\ jobs["B"].images[imageIdx["B"] + 1].status = "processing"

\* the request fails one of the validations of the upload route
FailsValidation(imagePaths, form) ==
    \/ Len(imagePaths) = 0
    \/ /\ form.provider = "imagerouter"
       /\ form.imageRouterApiKey = NoKey
    \/ /\ form.provider # "imagerouter"
       /\ \/ form.apiKey = NoKey
          \/ Len(form.apiKey) < 4
          \/ \E k \in 1 .. 4 : form.apiKey[k] # GeminiKeyPrefix[k]

(* C32: an upload request that fails validation (no files; provider
   imagerouter without ImageRouter key; any other provider without Gemini
   key or with a Gemini key that does not start with AIza) is answered with
   an error and leaves the tracker unchanged: no job is created, queued or
   started. *)
C32_RejectedUploadLeavesTracker ==
    [][\A jobId \in RouteIds, imagePaths \in PathLists, form \in UploadForms :
          (UploadForm(jobId, imagePaths, form) /\ FailsValidation(imagePaths, form))
             => /\ response'.route = "upload"
                /\ response'.code >= 400
                /\ UNCHANGED <<jobs, activeJobs, queue, usedIds, emitted, pc, running>>]_vars

\* a request with a malformed Gemini key was refused while a job is being
\* processed
C32_Witness ==
    /\ response.route = "upload"
    /\ response.code = 400
    /\ response.files > 0
    /\ response.error = "Invalid Gemini API key format"
    /\ "A" \in Registered
    /\ jobs["A"].status = "processing"

\* a list was fetched successfully less than ttl ago
FetchedWithinTtl ==
    /\ models.lastFetch.data # NoModels
    /\ models.clock - models.lastFetch.timestamp < CacheTtl

(* C33: the models route serves the list of the last successful fetch without
   contacting upstream whenever that fetch is less than ttl (1 hour) old, and
   contacts upstream otherwise; the cache is written only when a fetch
   succeeds, with the list and the time; when the fetch fails the fixed
   fallback list is sent and the cache stays as it is. *)
C33_ModelsCacheServedWithinTtl ==
    [][/\ \A r \in ModelRequests :
            /\ ModelsRequest(r)
                  => IF FetchedWithinTtl
                     THEN /\ models'.pc[r] = "idle"
                          /\ models'.origin[r] = "cache"
                          /\ models'.response[r] = models.lastFetch.data
                          /\ models'.cache = models.cache
                     ELSE /\ models'.pc[r] = "fetching"
                          /\ models'.cache = models.cache
            /\ (models.pc[r] = "fetching" /\ models'.pc[r] = "idle")
                  => \/ /\ models'.response[r] \in
                              { ModelsResult(raw) : raw \in UpstreamLists }
                        /\ models'.cache =
                              [data |-> models'.response[r], timestamp |-> models.clock]
                     \/ /\ models'.response[r] = FallbackModels
                        /\ models'.cache = models.cache
       /\ models'.cache # models.cache
            => \E r \in ModelRequests :
                  /\ models.pc[r] = "fetching"
                  /\ models'.pc[r] = "idle"
                  /\ models'.response[r] # FallbackModels]_vars

\* a request was served from a cache that an overlapping request had filled
\* almost an hour before
C33_Witness ==
    /\ models.clock = CacheTtl - 1
    /\ models.cache.timestamp = 0
    /\ models.pc["r1"] = "idle"
    /\ models.response["r1"] = FallbackModels
    /\ models.response["r2"] = models.cache.data
    /\ models.origin["r2"] = "cache"
    /\ models.origin["r1"] = "fallback"
    /\ models.cache.data = ModelsResult(<< "a/x", "b/y:free" >>)

\* how often showResultsSection was called for the job
ShownTimes(jobId) ==
    Cardinality({ k \in DOMAIN client.shown : client.shown[k].jobId = jobId })

(* C38: in the browser client showResultsSection is called at most once per
   started job, and only for the current job: never for a job other than
   currentJobId, never after resetApp has set currentJobId to null. *)
C38_ResultsShownOncePerCurrentJob ==
    /\ \A jobId \in RouteIds : ShownTimes(jobId) <= 1
    /\ \A k \in DOMAIN client.shown : client.shown[k].current = client.shown[k].jobId

(* C34: in every reachable state a registered job's id is in the pending
   queue exactly when its status is pending, and in the active set exactly
   when its status is processing; a job whose images were all resolved
   before startJob was called is no longer in the queue. *)
C34_MembershipFollowsStatus ==
    \A jobId \in Registered :
        /\ Queued(queue, jobId) <=> jobs[jobId].status = "pending"
        /\ jobId \in activeJobs <=> jobs[jobId].status = "processing"

(* C35: in every reachable state every id in the active set and every id in
   the pending queue is a registered job, no id is in both, and the queue
   holds no id twice; so the sizes reported by getStats satisfy
   activeJobs + queuedJobs <= totalJobs. *)
C35_ActiveAndQueuedAreRegistered ==
    /\ activeJobs \subseteq Registered
    /\ \A k \in DOMAIN queue : queue[k] \in Registered /\ queue[k] \notin activeJobs
    /\ \A k, l \in DOMAIN queue : queue[k] = queue[l] => k = l
    /\ getStats.activeJobs + getStats.queuedJobs <= getStats.totalJobs
    /\ LastWas("getStats") =>
          lastCall.result.activeJobs + lastCall.result.queuedJobs
             <= lastCall.result.totalJobs

\* getStats was called with one job active and one queued, after a third
\* one was removed
C35_Witness ==
    /\ LastWas("getStats")
    /\ lastCall.result.activeJobs = 1
    /\ lastCall.result.queuedJobs = 1
    /\ lastCall.result.totalJobs = 2
    /\ Cardinality(usedIds) = 3

(* C36: in every reachable state a job's completedAt is set if and only if
   the job's status is completed; it is unset while the job is pending or
   processing, whatever startJob and updateImageStatus calls were made. *)
C36_CompletedAtIffCompleted ==
    \A jobId \in Registered :
        jobs[jobId].completedAt # NullTime <=> jobs[jobId].status = "completed"

\* the job of the id was removed
Removed(jobId) == jobId \in usedIds /\ jobId \notin Registered

(* C37: once a job was removed while its processJob flow is in flight, every
   later updateImageStatus of the flow is dropped: the record is not created
   again, the id is neither in the active set nor in the queue from the
   removal on, and no jobUpdate or jobComplete is emitted for it any more. *)
C37_RemovedJobStaysRemoved ==
    /\ [](\A jobId \in JobIds :
            Removed(jobId) => jobId \notin activeJobs /\ ~Queued(queue, jobId))
    /\ [][\A jobId \in JobIds :
            Removed(jobId)
               => /\ jobId \notin DOMAIN jobs'
                  /\ jobId \notin activeJobs'
                  /\ ~Queued(queue', jobId)
                  /\ \A k \in DOMAIN emitted' : emitted'[k].jobId # jobId
                  /\ jobCompleteCount'[jobId] = jobCompleteCount[jobId]]_vars

\* the flow of a job removed while its first image was at the provider has
\* gone on to the second image and has reported it
C37_Witness ==
    /\ Removed("A")
    /\ LastWas("updateImageStatus")
    /\ lastCall.jobId = "A"
    /\ lastCall.imageIndex = 1
    /\ lastCall.status \in TerminalStatuses
    /\ emitted = << >>
    /\ "B" \in activeJobs

====
